---- MODULE Spec2Model ----
(***************************************************************************)
(* Model of listenlearn's review scheduling (src/main.py):                 *)
(*   - ReviewQueue: a deque of Python list objects.  Lists are objects     *)
(*     with identity, so the model keeps a heap of list objects and the    *)
(*     deque holds references into it (two positions of the deque may      *)
(*     hold the very same list).                                           *)
(*   - settts_command: the scheduler loop with its nested review().        *)
(* The specifications share the queue operators:                           *)
(*   SpecQ     - any sequence of add / progress / pop calls on one queue;  *)
(*   Spec      - one run of settts_command over a bounded CSV input;       *)
(*   FairSpec  - Spec, every step that can be taken is taken;              *)
(*   SpecRerun - Spec, and the command run a second time on the cache      *)
(*               directory the first run left behind.                      *)
(***************************************************************************)
EXTENDS Integers, Sequences, FiniteSets, TLC

\* ---- bounds -------------------------------------------------------------
MaxWait == 3        \* largest wait_time passed to add in SpecQ
MaxProgress == 3    \* largest amount passed to progress in SpecQ
MaxQItems == 2      \* distinct items offered to the queue in SpecQ
MaxRows == 3        \* CSV rows of one settts run in Spec
MaxCacheRows == 1   \* leading rows whose audio files are cached file by file

\* ---- program constants --------------------------------------------------
LongTextLen == 50   \* TTSItem.measure: texts of this length or more weigh 2
\* variant: the item is scheduled one tick early
ReviewWaitShort == 2 - 1
ReviewWait == 2     \* review_queue.add(tts_item, 2)

Max(a, b) == IF a >= b THEN a ELSE b
Min(a, b) == IF a <= b THEN a ELSE b
Range(s) == {s[k] : k \in 1..Len(s)}

QItems == 1..MaxQItems
\* list objects alive at once: one per deque position plus one fresh list
ObjIds == 1..(Max(MaxWait, ReviewWait) + 2)
NoObj == 0

VARIABLES
    queue,        \* ReviewQueue._queue: sequence of references to lists
    heap,         \* list object id -> its contents
    raised,       \* an uncaught exception left a queue operation
    last,         \* observer: the last queue call, the buckets before it, its result
    added,        \* observer (SpecQ): items passed to add so far
    returned,     \* observer (SpecQ): item -> occurrences in pop results so far
    pc,           \* settts_command: position in the run
    caller,       \* settts_command: which loop called review()
    rows,         \* settts_command: target text length of every CSV row
    i,            \* settts_command: enumerate index of the current row
    next_queue,   \* review(): reference to the list returned by pop
    concat_list,  \* settts_command: the ordered reference list
    cache,        \* audio files present in the cache directory
    since,        \* observer: item -> progress requested since its add
    reviews,      \* observer: log of review emissions
    calls,        \* observer: log of the synthesis calls of this run
    cache0,       \* observer: the cache directory as this run found it
    run,          \* observer: 1 in the first run of the command, 2 in a rerun
    prev          \* observer: how the first run ended and its reference list

qvars == <<queue, heap, raised, last, added, returned>>
rvars == <<cache0, run, prev>>
svars == <<pc, caller, rows, i, next_queue, concat_list, cache, since, reviews,
           calls, cache0, run, prev>>
vars == <<queue, heap, raised, last, added, returned,
          pc, caller, rows, i, next_queue, concat_list, cache, since, reviews,
          calls, cache0, run, prev>>

\* ---- the heap of list objects -------------------------------------------
\* a fresh list object: the least identity not in use
Alloc(used) == CHOOSE o \in ObjIds : o \notin used /\ \A p \in ObjIds \ used : o <= p

\* lists no longer referenced are dropped (reference counting)
Collect(h, roots) == [o \in ObjIds |-> IF o \in roots THEN h[o] ELSE <<>>]

EmptyHeap == [o \in ObjIds |-> <<>>]

\* contents of the buckets, position 1 is bucket 0
Buckets(q, h) == [k \in 1..Len(q) |-> h[q[k]]]

\* variant of add: the new bucket is put in front of the padding
addItemFirst(q, h, item, wait_time) ==
    IF wait_time < Len(q)
    THEN [queue |-> q,
          heap |-> [h EXCEPT ![q[wait_time + 1]] = Append(@, item)],
          err |-> FALSE]
    ELSE LET e == Alloc(Range(q))
             b == Alloc(Range(q) \cup {e})
             n == wait_time - Len(q)
         IN [queue |-> q \o <<b>> \o [k \in 1..n |-> e],
             heap |-> [h EXCEPT ![e] = <<>>, ![b] = <<item>>],
             err |-> FALSE]

\* variant of effective_progress: max taken for min
effective_progressMax(q, n) == Max(n, Len(q) - 1)

\* variant of pop: no except clause, an empty deque raises IndexError
popNoCatch(q, h) ==
    IF Len(q) = 0
    THEN [queue |-> q, heap |-> h, items |-> Alloc({}), err |-> TRUE]
    ELSE LET f == Alloc(Range(q))
         IN [queue |-> [q EXCEPT ![1] = f],
             heap |-> [h EXCEPT ![f] = <<>>],
             items |-> q[1], err |-> FALSE]

\* variant of pop: the list at position 0 is cleared in place and returned
popInPlace(q, h) ==
    IF Len(q) = 0
    THEN LET f == Alloc({})
         IN [queue |-> q, heap |-> [h EXCEPT ![f] = <<>>], items |-> f, err |-> FALSE]
    ELSE [queue |-> q, heap |-> [h EXCEPT ![q[1]] = <<>>], items |-> q[1], err |-> FALSE]

\* variant of add: a missing bucket is appended without padding
addNoPadding(q, h, item, wait_time) ==
    IF wait_time < Len(q)
    THEN [queue |-> q,
          heap |-> [h EXCEPT ![q[wait_time + 1]] = Append(@, item)],
          err |-> FALSE]
    ELSE LET b == Alloc(Range(q))
         IN [queue |-> Append(q, b),
             heap |-> [h EXCEPT ![b] = <<item>>],
             err |-> FALSE]

\* variant of merge: list 1 is put in front of list 0
RECURSIVE mergePrepend(_, _, _)
mergePrepend(q, h, k) ==
    IF k <= 0 THEN [queue |-> q, heap |-> h, err |-> FALSE]
    ELSE IF Len(q) < 2 THEN [queue |-> q, heap |-> h, err |-> TRUE]
    ELSE mergePrepend(<<q[1]>> \o SubSeq(q, 3, Len(q)),
                      [h EXCEPT ![q[1]] = h[q[2]] \o h[q[1]]],
                      k - 1)

\* variant of pop: the list at position 0 is handed out and left in place
popKeep(q, h) ==
    IF Len(q) = 0
    THEN LET f == Alloc({})
         IN [queue |-> q, heap |-> [h EXCEPT ![f] = <<>>], items |-> f, err |-> FALSE]
    ELSE [queue |-> q, heap |-> h, items |-> q[1], err |-> FALSE]

\* ---- ReviewQueue --------------------------------------------------------
\* ReviewQueue.add: append to the list at wait_time, or on IndexError extend
\* the deque by (wait_time - len) * [[]] + [[item]]; the repetition repeats
\* ONE list object.
add(q, h, item, wait_time) ==
    IF wait_time < Len(q)
    THEN [queue |-> q,
          heap |-> [h EXCEPT ![q[wait_time + 1]] = Append(@, item)],
          err |-> FALSE]
    ELSE LET e == Alloc(Range(q))
             b == Alloc(Range(q) \cup {e})
             n == wait_time - Len(q)
         IN [queue |-> q \o [k \in 1..n |-> e] \o <<b>>,
             heap |-> [h EXCEPT ![e] = <<>>, ![b] = <<item>>],
             err |-> FALSE]

\* the loop body of progress, k times: extend list 0 by list 1, delete position 1
RECURSIVE merge(_, _, _)
merge(q, h, k) ==
    IF k <= 0 THEN [queue |-> q, heap |-> h, err |-> FALSE]
    ELSE IF Len(q) < 2 THEN [queue |-> q, heap |-> h, err |-> TRUE]
    ELSE merge(<<q[1]>> \o SubSeq(q, 3, Len(q)),
               [h EXCEPT ![q[1]] = h[q[1]] \o h[q[2]]],
               k - 1)

effective_progress(q, n) == Min(n, Len(q) - 1)

\* ReviewQueue.progress
progress(q, h, n) ==
    IF effective_progress(q, n) <= 0
    THEN [queue |-> q, heap |-> h, err |-> FALSE]
    ELSE merge(q, h, effective_progress(q, n))

\* ReviewQueue.pop: hand out the list at position 0 and put a NEW empty list
\* there; an empty deque gives a fresh empty list.
pop(q, h) ==
    IF Len(q) = 0
    THEN LET f == Alloc({})
         IN [queue |-> q, heap |-> [h EXCEPT ![f] = <<>>], items |-> f, err |-> FALSE]
    ELSE LET f == Alloc(Range(q))
         IN [queue |-> [q EXCEPT ![1] = f],
             heap |-> [h EXCEPT ![f] = <<>>],
             items |-> q[1], err |-> FALSE]

\* ---- SpecQ: the queue under arbitrary calls -----------------------------
NoCall == [op |-> "none", item |-> 0, n |-> 0, pre |-> <<>>, ret |-> <<>>]

RECURSIVE Occurrences(_, _)
Occurrences(s, x) ==
    IF s = <<>> THEN 0
    ELSE (IF Head(s) = x THEN 1 ELSE 0) + Occurrences(Tail(s), x)

NoRun == [settled |-> FALSE, out |-> <<>>, calls |-> 0]

IdleScheduler ==
    /\ pc = "idle" /\ caller = "none" /\ rows = <<>> /\ i = 0
    /\ next_queue = NoObj /\ concat_list = <<>> /\ cache = {}
    /\ since = <<>> /\ reviews = <<>>
    /\ calls = <<>> /\ cache0 = {} /\ run = 0 /\ prev = NoRun

InitQ ==
    /\ queue = <<>> /\ heap = EmptyHeap /\ raised = FALSE
    /\ last = NoCall /\ added = {} /\ returned = [x \in QItems |-> 0]
    /\ IdleScheduler

QAdd ==
    \E item \in QItems \ added, w \in 0..MaxWait :
        LET r == add(queue, heap, item, w) IN
        /\ ~raised
        /\ queue' = r.queue
        /\ heap' = Collect(r.heap, Range(r.queue))
        /\ raised' = r.err
        /\ last' = [op |-> "add", item |-> item, n |-> w,
                    pre |-> Buckets(queue, heap), ret |-> <<>>]
        /\ added' = added \cup {item}
        /\ UNCHANGED <<returned, svars>>

QProgress ==
    \E n \in (-1)..MaxProgress :
        LET r == progress(queue, heap, n) IN
        /\ ~raised
        /\ queue' = r.queue
        /\ heap' = Collect(r.heap, Range(r.queue))
        /\ raised' = r.err
        /\ last' = [op |-> "progress", item |-> 0, n |-> n,
                    pre |-> Buckets(queue, heap), ret |-> <<>>]
        /\ UNCHANGED <<added, returned, svars>>

QPop ==
    LET r == pop(queue, heap)
        got == r.heap[r.items]
    IN
    /\ ~raised
    /\ queue' = r.queue
    /\ heap' = Collect(r.heap, Range(r.queue))
    /\ raised' = r.err
    /\ last' = [op |-> "pop", item |-> 0, n |-> 0,
                pre |-> Buckets(queue, heap), ret |-> got]
    /\ returned' = [x \in QItems |-> returned[x] + Occurrences(got, x)]
    /\ UNCHANGED <<added, svars>>

NextQ == QAdd \/ QProgress \/ QPop

SpecQ == InitQ /\ [][NextQ]_vars


\* ---- Spec: one run of settts_command ------------------------------------
TextLens == {49, 50, 60}     \* target text lengths either side of the limit

Inputs == UNION {[1..n -> TextLens] : n \in 0..MaxRows}

\* the audio files of row k: target_k.mp3 and fallback_k.mp3 in tmpdir
target_audio_file(k) == <<"target", k>>
fallback_audio_file(k) == <<"fallback", k>>
Files(n) == {target_audio_file(k) : k \in 0..(n - 1)}
              \cup {fallback_audio_file(k) : k \in 0..(n - 1)}

\* variant of measure: a text of exactly the limit length still counts as short
measureInclusive(len) == IF len <= LongTextLen THEN 1 ELSE 2

\* TTSItem.measure of a text of the given length
measure(len) == IF len < LongTextLen THEN 1 ELSE 2

\* measure of the item made from row k (rows are numbered from 0)
item_measure(k) == measure(rows[k + 1])

\* variant of review_refs: the two review orders exchanged
review_refsSwapped(k) ==
    IF item_measure(k) > 1
    THEN <<target_audio_file(k), fallback_audio_file(k), target_audio_file(k)>>
    ELSE <<target_audio_file(k)>>

\* review(): what one due item appends to concat_list
review_refs(k) ==
    IF item_measure(k) > 1
    THEN <<target_audio_file(k)>>
    ELSE <<target_audio_file(k), fallback_audio_file(k), target_audio_file(k)>>

\* variant of initial_refs: the short review order used for the first exposure
initial_refsShort(k) ==
    <<target_audio_file(k), fallback_audio_file(k), target_audio_file(k)>>

\* settts_command: what introducing row k appends to concat_list
initial_refs(k) ==
    <<target_audio_file(k), fallback_audio_file(k),
      target_audio_file(k), target_audio_file(k)>>

\* variant of review_all: the batch is walked from its end
RECURSIVE review_allReversed(_)
review_allReversed(items) ==
    IF items = <<>> THEN <<>>
    ELSE review_allReversed(Tail(items)) \o review_refs(Head(items))

RECURSIVE review_all(_)
review_all(items) ==
    IF items = <<>> THEN <<>>
    ELSE review_refs(Head(items)) \o review_all(Tail(items))

RECURSIVE sum_measure(_)
sum_measure(items) ==
    IF items = <<>> THEN 0
    ELSE item_measure(Head(items)) + sum_measure(Tail(items))

\* variant of review_progress: the item count is always taken
review_progressCoarse(q, batch) == Len(batch)

\* review(): the amount passed to progress after a batch
review_progress(q, batch) ==
    IF Len(q) > Len(batch) THEN sum_measure(batch) ELSE Len(batch)

\* observer: progress requested by the run counts for every item already added
Requested(amount) == [k \in DOMAIN since |-> IF k < i THEN since[k] + amount ELSE since[k]]

\* the cache directory as a run may find it: any of the files of the leading
\* rows present or missing (the rest missing), or every file present
CacheChoices(n) == (SUBSET Files(Min(n, MaxCacheRows))) \cup {Files(n)}

\* variant of path_exists: the existence test is left out
path_existsNever(file) == FALSE

\* variant of on_synthesis_error: the raise is swallowed and the run goes on
on_synthesis_errorContinue(next_pc) == next_pc

\* os.path.exists(file) in the cache directory
path_exists(file) == file \in cache

\* a raise of the awaited tts call is not caught anywhere in settts_command:
\* the run ends there, whatever step would have come next
on_synthesis_error(next_pc) == "failed"

Init ==
    /\ queue = <<>> /\ heap = EmptyHeap /\ raised = FALSE
    /\ last = NoCall /\ added = {} /\ returned = [x \in QItems |-> 0]
    /\ rows \in Inputs
    /\ cache \in CacheChoices(Len(rows))
    /\ pc = "for" /\ caller = "none" /\ i = 0
    /\ next_queue = NoObj /\ concat_list = <<>>
    /\ since = [k \in 0..(Len(rows) - 1) |-> 0]
    /\ reviews = <<>>
    /\ calls = <<>> /\ cache0 = cache /\ run = 1 /\ prev = NoRun

\* for i, row in enumerate(reader): review() ... ; after the last row the
\* run goes on to the final loop
ForRow ==
    /\ pc = "for"
    /\ IF i < Len(rows)
       THEN pc' = "review_pop" /\ caller' = "for"
       ELSE pc' = "drain" /\ caller' = "none"
    /\ UNCHANGED <<qvars, rows, i, next_queue, concat_list, cache, since, reviews,
                   calls, rvars>>

\* review(): while next_queue := review_queue.pop() - an empty list ends review()
ReviewPop ==
    /\ pc = "review_pop"
    /\ LET r == pop(queue, heap)
           empty == r.heap[r.items] = <<>>
       IN /\ queue' = r.queue
          /\ next_queue' = IF empty THEN NoObj ELSE r.items
          /\ heap' = Collect(r.heap, Range(r.queue) \cup {next_queue'})
          /\ raised' = r.err
          /\ pc' = IF ~empty THEN "review_emit"
                   ELSE IF caller = "for" THEN "synth_target" ELSE "drain"
    /\ UNCHANGED <<last, added, returned, caller, rows, i, concat_list, cache,
                   since, reviews, calls, rvars>>

\* review(): for queue_item in next_queue: append its review references
ReviewEmit ==
    /\ pc = "review_emit"
    /\ LET batch == heap[next_queue] IN
       /\ concat_list' = concat_list \o review_all(batch)
       /\ reviews' = reviews \o [j \in 1..Len(batch) |->
                        [item |-> batch[j], since |-> since[batch[j]], iter |-> i]]
    /\ pc' = "review_progress"
    /\ UNCHANGED <<qvars, caller, rows, i, next_queue, cache, since, calls, rvars>>

\* review(): added_count, progress, review_queue.progress(progress)
ReviewProgress ==
    /\ pc = "review_progress"
    /\ LET batch == heap[next_queue]
           amount == review_progress(queue, batch)
           r == progress(queue, heap, amount)
       IN /\ queue' = r.queue
          /\ heap' = Collect(r.heap, Range(r.queue) \cup {next_queue})
          /\ raised' = r.err
          /\ since' = Requested(amount)
          /\ last' = [op |-> "progress", item |-> 0, n |-> amount,
                      pre |-> Buckets(queue, heap), ret |-> <<>>]
          /\ pc' = IF r.err THEN "crashed" ELSE "review_pop"
    /\ UNCHANGED <<added, returned, caller, rows, i, next_queue,
                   concat_list, cache, reviews, calls, rvars>>

\* if not os.path.exists(target_audio_file): await tts...target_language
\* (the call either saves the file or raises)
SynthTarget ==
    /\ pc = "synth_target"
    /\ LET f == target_audio_file(i) IN
       IF path_exists(f)
       THEN pc' = "synth_fallback" /\ cache' = cache /\ calls' = calls
       ELSE \/ /\ pc' = "synth_fallback"
               /\ cache' = cache \cup {f}
               /\ calls' = Append(calls, [file |-> f, ok |-> TRUE])
            \/ /\ pc' = on_synthesis_error("synth_fallback")
               /\ cache' = cache
               /\ calls' = Append(calls, [file |-> f, ok |-> FALSE])
    /\ UNCHANGED <<qvars, caller, rows, i, next_queue, concat_list, since, reviews,
                   rvars>>

\* if not os.path.exists(fallback_audio_file): await tts...fallback_language
SynthFallback ==
    /\ pc = "synth_fallback"
    /\ LET f == fallback_audio_file(i) IN
       IF path_exists(f)
       THEN pc' = "introduce" /\ cache' = cache /\ calls' = calls
       ELSE \/ /\ pc' = "introduce"
               /\ cache' = cache \cup {f}
               /\ calls' = Append(calls, [file |-> f, ok |-> TRUE])
            \/ /\ pc' = on_synthesis_error("introduce")
               /\ cache' = cache
               /\ calls' = Append(calls, [file |-> f, ok |-> FALSE])
    /\ UNCHANGED <<qvars, caller, rows, i, next_queue, concat_list, since, reviews,
                   rvars>>

\* concat_list.extend([...]); review_queue.progress(tts_item.measure);
\* review_queue.add(tts_item, 2)
Introduce ==
    /\ pc = "introduce"
    /\ LET p == progress(queue, heap, item_measure(i))
           a == add(p.queue, p.heap, i, ReviewWait)
       IN /\ queue' = a.queue
          /\ heap' = Collect(a.heap, Range(a.queue))
          /\ raised' = (p.err \/ a.err)
          /\ pc' = IF p.err \/ a.err THEN "crashed" ELSE "for"
    /\ concat_list' = concat_list \o initial_refs(i)
    /\ since' = Requested(item_measure(i))
    /\ i' = i + 1
    /\ UNCHANGED <<last, added, returned, caller, rows, next_queue, cache, reviews,
                   calls, rvars>>

\* while 0 < len(review_queue): review()
Drain ==
    /\ pc = "drain"
    /\ IF 0 < Len(queue)
       THEN pc' = "review_pop" /\ caller' = "drain"
       ELSE pc' = "assemble" /\ caller' = "none"
    /\ UNCHANGED <<qvars, rows, i, next_queue, concat_list, cache, since, reviews,
                   calls, rvars>>

\* with open(args.out, "wb"): write every file of concat_list in order
Assemble ==
    /\ pc = "assemble"
    /\ pc' = "done"
    /\ UNCHANGED <<qvars, caller, rows, i, next_queue, concat_list, cache,
                   since, reviews, calls, rvars>>

Next ==
    \/ ForRow \/ ReviewPop \/ ReviewEmit \/ ReviewProgress
    \/ SynthTarget \/ SynthFallback \/ Introduce \/ Drain \/ Assemble

Spec == Init /\ [][Next]_vars

\* the run is sequential and every awaited call returns or raises: a step
\* that can be taken is taken
FairSpec == Spec /\ WF_vars(Next)

\* ---- SpecRerun: the command run again on the same --cache directory -----
\* the first run is over for the reference list: the output was written, or
\* the final loop has had a review() return and only repeats empty pops
Settled == pc = "done" \/ (pc = "drain" /\ caller = "drain")

\* the user starts the same command again (after the output was written,
\* after a failed synthesis, or after interrupting the final loop); only the
\* cache directory is carried over
Rerun ==
    /\ run = 1
    /\ Settled \/ pc = "failed"
    /\ prev' = [settled |-> Settled, out |-> concat_list, calls |-> Len(calls)]
    /\ run' = 2
    /\ cache0' = cache
    /\ queue' = <<>> /\ heap' = EmptyHeap /\ raised' = FALSE /\ last' = NoCall
    /\ pc' = "for" /\ caller' = "none" /\ i' = 0
    /\ next_queue' = NoObj /\ concat_list' = <<>>
    /\ since' = [k \in 0..(Len(rows) - 1) |-> 0]
    /\ reviews' = <<>> /\ calls' = <<>>
    /\ UNCHANGED <<added, returned, rows, cache>>

NextRerun == Next \/ Rerun

SpecRerun == Init /\ [][NextRerun]_vars

\* ---- observations used by the properties --------------------------------
Cur == Buckets(queue, heap)

RECURSIVE Concat(_)
Concat(ss) == IF ss = <<>> THEN <<>> ELSE Head(ss) \o Concat(Tail(ss))

\* occurrences of x over all buckets
InBuckets(bs, x) == Occurrences(Concat(bs), x)

\* ---- ReviewQueue properties (SpecQ) -------------------------------------

\* C3: conservation - every added item is, at any time, either held once in
\* exactly one bucket or has been returned once by exactly one pop; it is
\* never lost and never returned twice (by two pops or twice in one result).
C3_Conservation ==
    \A x \in QItems :
        returned[x] + InBuckets(Cur, x) = (IF x \in added THEN 1 ELSE 0)

\* C4: add(item, w) changes only bucket w - every other bucket that existed
\* keeps its contents, buckets newly created below w are empty, and the item
\* resides in exactly one bucket.
C4_AddFrame ==
    last.op = "add" =>
        /\ \A k \in 1..Len(last.pre) : k # last.n + 1 => Cur[k] = last.pre[k]
        /\ \A k \in (Len(last.pre) + 1)..last.n : Cur[k] = <<>>
        /\ InBuckets(Cur, last.item) = 1

\* C5: after add(item, w) on a queue of length L the length is max(L, w+1)
\* and item is the last element of bucket w.
C5_AddLength ==
    last.op = "add" =>
        /\ Len(queue) = Max(Len(last.pre), last.n + 1)
        /\ Cur[last.n + 1] # <<>>
        /\ Cur[last.n + 1][Len(Cur[last.n + 1])] = last.item

\* an add that had to extend a non-empty queue by two or more positions
C5_Witness ==
    /\ last.op = "add"
    /\ Len(last.pre) >= 1
    /\ last.n > Len(last.pre)
    /\ Len(queue) = last.n + 1

\* C6: progress(n) with n' = min(n, L-1) > 0 leaves bucket 0 equal to the
\* concatenation of the old buckets 0..n' in index order, and the old bucket
\* n'+k is the new bucket k for every k >= 1.
C6_ProgressMerge ==
    (last.op = "progress" /\ Min(last.n, Len(last.pre) - 1) > 0) =>
        LET np == Min(last.n, Len(last.pre) - 1) IN
        /\ Len(Cur) = Len(last.pre) - np
        /\ Cur[1] = Concat(SubSeq(last.pre, 1, np + 1))
        /\ \A k \in 1..(Len(Cur) - 1) : Cur[k + 1] = last.pre[np + k + 1]

\* C7: progress(n), n > 0, on a queue of length L >= 1 leaves exactly
\* L - min(n, L-1) buckets, never fewer than one, and an advance larger than
\* L-1 gives the queue that an advance of exactly L-1 gives.
C7_ProgressClamp ==
    [][ (last'.op = "progress" /\ last'.n > 0 /\ Len(queue) >= 1) =>
          /\ Len(queue') = Len(queue) - Min(last'.n, Len(queue) - 1)
          /\ Len(queue') >= 1
          /\ last'.n > Len(queue) - 1 =>
                LET r == progress(queue, heap, Len(queue) - 1)
                IN Buckets(queue', heap') = Buckets(r.queue, r.heap)
      ]_vars

\* an advance beyond the last bucket of a queue with several filled buckets
C7_Witness ==
    /\ last.op = "progress"
    /\ Len(last.pre) >= 3
    /\ last.n > Len(last.pre) - 1
    /\ last.pre[Len(last.pre)] # <<>>
    /\ Len(queue) = 1

\* C8: the queue operations never raise; progress(n) with n <= 0, progress
\* on an empty queue and progress on a one-bucket queue leave the queue as it
\* was; pop on an empty queue returns an empty list and leaves zero buckets.
C8_Total ==
    /\ [](~raised)
    /\ [][ /\ (last'.op = "progress" /\ (last'.n <= 0 \/ Len(queue) <= 1)) =>
                (queue' = queue /\ heap' = heap)
           /\ (last'.op = "pop" /\ Len(queue) = 0) =>
                (last'.ret = <<>> /\ Len(queue') = 0)
         ]_vars

\* a non-positive advance was asked of a queue holding items in later buckets
C8_Witness ==
    /\ last.op = "progress"
    /\ last.n <= 0
    /\ Len(last.pre) >= 2
    /\ last.pre[2] # <<>>
    /\ Cur = last.pre

\* C9: pop returns the contents of bucket 0 in order and leaves bucket 0
\* empty, the bucket count and every bucket at index >= 1 as they were; a
\* pop directly after a pop returns an empty list and keeps the length.
C9_PopFrame ==
    /\ [](last.op = "pop" /\ Len(last.pre) >= 1 =>
            /\ last.ret = last.pre[1]
            /\ Len(Cur) = Len(last.pre)
            /\ Cur[1] = <<>>
            /\ \A k \in 2..Len(Cur) : Cur[k] = last.pre[k])
    /\ [][ (last.op = "pop" /\ last'.op = "pop") =>
                (last'.ret = <<>> /\ Len(queue') = Len(queue)) ]_vars

\* a pop that returned items while a later bucket held items too
C9_Witness ==
    /\ last.op = "pop"
    /\ last.ret # <<>>
    /\ Len(last.pre) >= 2
    /\ \E k \in 2..Len(Cur) : Cur[k] # <<>>


\* ---- scheduler properties (Spec, FairSpec) ------------------------------
Reviewed(k) == \E j \in 1..Len(reviews) : reviews[j].item = k
Introduced(k) == k < i

\* C1: every introduced item is eventually reviewed before the run ends
\* (a run stopped by a failed synthesis aside), and no item is held in a
\* bucket once the final loop is over.
C1_EventuallyReviewed ==
    /\ \A k \in 0..(MaxRows - 1) :
          Introduced(k) ~> (Reviewed(k) \/ pc = "failed")
    /\ [](pc \in {"assemble", "done"} => \A b \in 1..Len(Cur) : Cur[b] = <<>>)

\* C2: the run terminates - the final loop exits and the reference list is
\* handed to the assembler (or a failed synthesis stopped the run).
C2_Terminates == <>(pc = "done" \/ pc = "failed")

\* C10: an item is not emitted for review before the progress amounts
\* requested after its add total at least 2, and never in the iteration in
\* which it was introduced.
C10_NotBeforeTwoTicks ==
    \A j \in 1..Len(reviews) :
        /\ reviews[j].since >= 2
        /\ reviews[j].iter > reviews[j].item

\* an item came due through the progress of a single later long item
C10_Witness ==
    \E j \in 1..Len(reviews) :
        /\ reviews[j].since = 2
        /\ reviews[j].iter = reviews[j].item + 1
        /\ reviews[j].iter < Len(rows)


\* the review references the text length of row k calls for
ShortForm(k) == <<<<"target", k>>, <<"fallback", k>>, <<"target", k>>>>
LongForm(k) == <<<<"target", k>>>>
FormByLength(k) == IF rows[k + 1] < 50 THEN ShortForm(k) ELSE LongForm(k)

RECURSIVE FormsByLength(_)
FormsByLength(items) ==
    IF items = <<>> THEN <<>>
    ELSE FormByLength(Head(items)) \o FormsByLength(Tail(items))

\* C11: the review expansion of a due item depends only on its target text
\* length - under 50 characters (weight 1) it appends [target, fallback,
\* target], 50 or more (weight 2) it appends [target]; the weight of an item
\* is 1 or 2 by that same length test whenever it is computed.
C11_ReviewExpansion ==
    /\ [](\A k \in 0..(Len(rows) - 1) :
            item_measure(k) = (IF rows[k + 1] < 50 THEN 1 ELSE 2))
    /\ [][ pc = "review_emit" =>
             concat_list' = concat_list \o FormsByLength(heap[next_queue]) ]_vars

\* items with 49 and with 50 characters have both been reviewed
C11_Witness ==
    /\ \E j \in 1..Len(reviews) : rows[reviews[j].item + 1] = 49
    /\ \E j \in 1..Len(reviews) : rows[reviews[j].item + 1] = 50

\* positions of concat_list that reference a file of row k
Pos(k) == {j \in 1..Len(concat_list) : concat_list[j][2] = k}
FirstPos(k) == CHOOSE j \in Pos(k) : \A m \in Pos(k) : j <= m

\* number of references the logged reviews of row k account for
RECURSIVE ReviewRefCount(_, _)
ReviewRefCount(log, k) ==
    IF log = <<>> THEN 0
    ELSE (IF Head(log).item = k THEN Len(FormByLength(k)) ELSE 0)
         + ReviewRefCount(Tail(log), k)

\* C12: every introduced item, whatever its weight, has contributed exactly
\* [target, fallback, target, target] exactly once, as its first references
\* in the list (so before any review reference of it); an item not yet
\* introduced has no reference in the list and is in no bucket.
C12_InitialExposure ==
    \A k \in 0..(Len(rows) - 1) :
        IF k < i
        THEN /\ Pos(k) # {}
             /\ FirstPos(k) + 3 <= Len(concat_list)
             /\ SubSeq(concat_list, FirstPos(k), FirstPos(k) + 3)
                  = <<<<"target", k>>, <<"fallback", k>>, <<"target", k>>, <<"target", k>>>>
             /\ Cardinality(Pos(k)) = 4 + ReviewRefCount(reviews, k)
        ELSE /\ Pos(k) = {}
             /\ InBuckets(Cur, k) = 0
             /\ ~Reviewed(k)

\* a long and a short item were introduced and reviewed, a third is in the queue
C12_Witness ==
    /\ \E k \in 0..(Len(rows) - 1) : Reviewed(k) /\ item_measure(k) = 2
    /\ \E k \in 0..(Len(rows) - 1) : Reviewed(k) /\ item_measure(k) = 1
    /\ \E k \in 0..(Len(rows) - 1) : k < i /\ InBuckets(Cur, k) = 1


IsPrefix(a, b) == Len(a) <= Len(b) /\ SubSeq(b, 1, Len(a)) = a

\* C13: the reference list does not depend on the cache - synthesis is
\* called only for files missing when the run started (each once), a run
\* that finds every file makes no call, and a rerun on the cache a complete
\* first run left makes no call and builds the same list as that first run.
C13_CacheIdempotence ==
    /\ \A c \in 1..Len(calls) :
          /\ calls[c].file \notin cache0
          /\ \A d \in 1..Len(calls) : d # c => calls[d].file # calls[c].file
    /\ cache0 = Files(Len(rows)) => calls = <<>>
    /\ (run = 2 /\ prev.settled) =>
          /\ calls = <<>>
          /\ IsPrefix(concat_list, prev.out)
          /\ Settled => concat_list = prev.out

\* a first run on an empty cache synthesized every file and reviewed items;
\* the rerun has come as far
C13_Witness ==
    /\ run = 2 /\ prev.settled /\ Settled
    /\ Len(rows) >= 2
    /\ prev.calls = 2 * Len(rows)
    /\ Len(reviews) >= 1
    /\ concat_list = prev.out

\* C14: a failed synthesis call ends the run on the spot - it is the last
\* call of the run, no file is asked for twice, and a run with a failed call
\* is never at the assembler step nor past it.
C14_FailureAborts ==
    /\ \A c \in 1..Len(calls) :
          /\ ~calls[c].ok => (c = Len(calls) /\ pc = "failed")
          /\ \A d \in 1..Len(calls) : d # c => calls[d].file # calls[c].file
    /\ pc \in {"assemble", "done"} => \A c \in 1..Len(calls) : calls[c].ok
    /\ pc = "failed" => (calls # <<>> /\ ~calls[Len(calls)].ok)

\* the synthesis of a later row failed after earlier items had been reviewed
C14_Witness ==
    /\ pc = "failed"
    /\ Len(calls) >= 3
    /\ Len(reviews) >= 1
    /\ i >= 2


\* the two-item input: A short (weight 1), then B of 60 characters (weight 2)
TwoItemInput == Len(rows) = 2 /\ rows[1] < 50 /\ rows[2] = 60

FirstExposures ==
    <<<<"target", 0>>, <<"fallback", 0>>, <<"target", 0>>, <<"target", 0>>,
      <<"target", 1>>, <<"fallback", 1>>, <<"target", 1>>, <<"target", 1>>>>

C16_CoarseAdvance ==
    [][ pc = "review_progress" =>
          LET r == progress(queue, heap, sum_measure(heap[next_queue]))
          IN /\ Buckets(queue', heap') = Buckets(r.queue, r.heap)
             /\ raised' = r.err
             /\ concat_list' = concat_list ]_vars

\* a batch with a long item was followed by the coarse advance (the queue
\* had no more buckets than the batch had items)
C16_Witness ==
    /\ pc = "review_pop"
    /\ last.op = "progress"
    /\ next_queue # NoObj
    /\ Len(last.pre) <= Len(heap[next_queue])
    /\ last.n = Len(heap[next_queue])
    /\ sum_measure(heap[next_queue]) > last.n

\* review() has returned to the loop that called it
ReviewReturned ==
    \/ pc \in {"synth_target", "synth_fallback", "introduce"}
    \/ pc = "drain" /\ caller = "drain"

Bucket0Empty == Len(queue) = 0 \/ Cur[1] = <<>>

\* the run is inside review()
InReview == pc \in {"review_pop", "review_emit", "review_progress"}

\* the items of the last n review emissions
LastReviewed(n) ==
    [j \in 1..n |-> reviews[Len(reviews) - n + j].item]

\* C17: a review pass terminates - a run inside review() eventually returns
\* from it, every round of its loop removes a bucket or leaves bucket 0
\* empty, and a pop that finds bucket 0 empty ends the pass; when the pass
\* has returned bucket 0 is empty; the references of a drained batch are
\* appended in batch order while the queue is still as pop left it.
C17_ReviewPass ==
    /\ InReview ~> ReviewReturned
    /\ [](ReviewReturned => Bucket0Empty)
    /\ [](pc = "review_progress" =>
            LET batch == heap[next_queue] IN
            /\ Bucket0Empty
            /\ Len(reviews) >= Len(batch)
            /\ LastReviewed(Len(batch)) = batch
            /\ Len(concat_list) >= Len(FormsByLength(batch))
            /\ SubSeq(concat_list,
                      Len(concat_list) - Len(FormsByLength(batch)) + 1,
                      Len(concat_list)) = FormsByLength(batch))
    /\ [][ /\ pc = "review_emit" => (queue' = queue /\ heap' = heap)
           /\ pc = "review_progress" =>
                (Len(queue') < Len(queue) \/ Len(queue') = 0 \/ Cur'[1] = <<>>)
           /\ (pc = "review_pop" /\ Bucket0Empty) => ReviewReturned'
         ]_vars

\* a batch of two items has been emitted and the queue is about to advance
C17_Witness ==
    /\ pc = "review_progress"
    /\ Len(heap[next_queue]) >= 2
    /\ Len(queue) >= 2


\* positions of concat_list holding review references of row k (those after
\* its four first-exposure references)
ReviewPos(k) == {j \in Pos(k) : j > FirstPos(k) + 3}

\* C18: reviews are first-in first-out - if X was introduced before Y, every
\* review emission of X comes before every review emission of Y, in the log
\* and in the reference list.
C18_ReviewFifo ==
    /\ \A a, b \in 1..Len(reviews) :
          reviews[a].item < reviews[b].item => a < b
    /\ \A x, y \in 0..(Len(rows) - 1) :
          x < y => \A a \in ReviewPos(x), b \in ReviewPos(y) : a < b

\* three items have been reviewed, two of them in one batch
C18_Witness ==
    /\ Len(reviews) >= 3
    /\ \E j \in 1..(Len(reviews) - 1) :
          /\ reviews[j].iter = reviews[j + 1].iter
          /\ reviews[j].since # reviews[j + 1].since

\* number of review emissions of row k
ReviewCount(k) == Cardinality({j \in 1..Len(reviews) : reviews[j].item = k})

\* C19: no item is reviewed more than once - at most one review emission and
\* one review block per item, an item is held at most once in the buckets,
\* and an item that pop has returned is in no bucket any more.
C19_ReviewedOnce ==
    \A k \in 0..(Len(rows) - 1) :
        /\ ReviewCount(k) <= 1
        /\ Cardinality(ReviewPos(k)) = ReviewCount(k) * Len(FormByLength(k))
        /\ InBuckets(Cur, k) <= 1
        /\ Reviewed(k) => InBuckets(Cur, k) = 0
        /\ (next_queue # NoObj /\ Occurrences(heap[next_queue], k) > 0) =>
              /\ InBuckets(Cur, k) = 0
              /\ Occurrences(heap[next_queue], k) = 1

\* pop has returned a batch while other items wait and others were reviewed
C19_Witness ==
    /\ pc = "review_emit"
    /\ Len(reviews) >= 1
    /\ \E k \in 0..(Len(rows) - 1) : InBuckets(Cur, k) = 1

\* C20: the queue has no bucket until the first item is added and between 1
\* and 3 buckets afterwards; right after an introduction it has exactly 3
\* buckets and bucket 2 holds exactly the item just introduced.
C20_QueueShape ==
    /\ i = 0 => Len(queue) = 0
    /\ i >= 1 => (1 <= Len(queue) /\ Len(queue) <= 3)
    /\ (pc = "for" /\ i >= 1) => (Len(queue) = 3 /\ Cur[3] = <<i - 1>>)

\* after an introduction bucket 0 already holds an item that came due, and
\* the queue has been down to one bucket in between
C20_Witness ==
    /\ pc = "for"
    /\ i >= 2
    /\ Len(queue) = 3
    /\ Cur[1] # <<>>
    /\ Cur[2] = <<>>

====
